---- MODULE Spec2Model ----
(***************************************************************************)
(* JsonlBatch: the execution engine of processor.py (JsonlBatchProcessor)  *)
(* with the retry decorator of utils.py and the process function of        *)
(* user_logic.py, as a state machine.                                      *)
(*                                                                         *)
(* One run of the engine is  load -> select -> startup -> dispatch ->      *)
(* shutdown -> on_shutdown -> report -> done, or it ends crashed when an   *)
(* exception leaves run().  During dispatch the asyncio event loop         *)
(* interleaves the worker coroutines (one per task) with the outcome loop  *)
(* of _run_processing_loop; every action below is one step of one          *)
(* coroutine between two suspension points.                                *)
(***************************************************************************)
EXTENDS Integers, Sequences, FiniteSets, TLC

VARIABLES
    config,             \* the configuration object handed to __init__
    wired,              \* TRUE: process_func is user_logic.process_record (decorated)
    input,              \* INPUT_FILE: sequence of lines
    outFile,            \* OUTPUT_FILE: sequence of lines (success records)
    errFile,            \* ERROR_FILE: sequence of lines (failure records)
    phase,              \* position of run()
    runNo,              \* number of the current run of the engine
    processed_ids,      \* self.processed_ids
    tasks,              \* tasks_to_process
    warnings,           \* line numbers reported by the selector's warnings
    wpc,                \* position of each worker coroutine
    attempt,            \* loop index i of retry_with_backoff.wrapper, per worker
    inner,              \* loop index i of the decorator on process_record, per worker
    calls,              \* invocations of rate_limited_process, per worker
    raises,             \* invocations of rate_limited_process that raised, per worker
    bodyExecs,          \* executions of the body of the user function, per worker
    semaphore,          \* value of asyncio.Semaphore(MAX_CONCURRENCY)
    rate_limit_lock,    \* holder of self._rate_limit_lock (0: free)
    last_request_time,  \* self._last_request_time
    clock,              \* time.monotonic(), in seconds
    wake,               \* end of the rate-limit sleep, per worker
    starts,             \* clock readings at the starts of process_func made by rate_limited_process
    rlPasses,           \* completed passes through the rate limiter
    doneQ,              \* finished workers in completion order (asyncio.as_completed)
    mpc,                \* position of the outcome loop
    consumed,           \* futures already awaited by the outcome loop
    cur,                \* result held across `await logger.error` (0: none)
    results_batch,
    errors_batch,
    success_count,
    error_count,
    wi,                 \* items of the batch already written by the running _write_batch
    cancelled,          \* "no", or where the cancellation reached the dispatcher
    nOk,                \* per input line: success records appended to results_batch
    nErr,               \* per input line: failure records appended to errors_batch
    handed,             \* records passed to _write_batch, per file
    outLen0,            \* length of OUTPUT_FILE when the current run started
    errLen0,            \* length of ERROR_FILE when the current run started
    marked,             \* the edit of the success file: the ID of the line given the
                        \* rerun key ("": none) and the run after which it was made
    session,            \* the aiohttp.ClientSession of run(): "none", "open", "closed"
    hookCalls,          \* invocations of on_shutdown in the current run
    hookResult,         \* how on_shutdown ended: "none" (not yet), "returned", "raised"
    report,             \* the items of the final report logged so far
    exc,                \* the exception in flight in run() ("none": none)
    lost,               \* records of the batches whose write failed, per file
    cancelAt,           \* per worker: its number of calls when it was cancelled
                        \* (-1: not cancelled)
    live                \* per worker: the content of the dict object of its task,
                        \* the one object shared by tasks_to_process, process_func
                        \* and the worker's result

vars == << config, wired, input, outFile, errFile, phase, runNo, processed_ids,
           tasks, warnings, wpc, attempt, inner, calls, raises, bodyExecs,
           semaphore, rate_limit_lock, last_request_time, clock, wake, starts,
           rlPasses, doneQ, mpc, consumed, cur, results_batch, errors_batch,
           success_count, error_count, wi, cancelled, nOk, nErr, handed,
           outLen0, errLen0, marked, session, hookCalls, hookResult, report,
           exc, lost, cancelAt, live >>

endVars == << session, hookCalls, hookResult, report, exc >>
fileVars == << input, outFile, errFile >>
workerVars == << wpc, attempt, inner, calls, raises, bodyExecs, semaphore,
                 rate_limit_lock, last_request_time, wake, starts, rlPasses >>
loopVars == << mpc, consumed, cur, results_batch, errors_batch, success_count,
               error_count, wi, nOk, nErr, handed >>

-----------------------------------------------------------------------------
(* Bounds of the model *)

\* longest input file
MaxLines == 2
\* last reading of the monotonic clock reached by Tick
MaxTime == 4

-----------------------------------------------------------------------------
(* Lines of a JSONL file.  kind "obj": a JSON object; "bad": a line        *)
(* json.loads rejects (blank, malformed); "other": valid JSON that is not  *)
(* an object.  id "" stands for a missing or empty ID; rerun says whether  *)
(* the RERUN_KEY is a key of the object; v stands for the rest of the      *)
(* record (here: the number of the input line it came from).               *)

Ids == {"a", "b"}

Line(kind, id, rerun, v) == [kind |-> kind, id |-> id, rerun |-> rerun, v |-> v]

LineShapes ==
    { Line("obj", i, FALSE, 0) : i \in Ids \cup {""} }
        \cup { Line("obj", "a", TRUE, 0), Line("bad", "", FALSE, 0),
               Line("other", "", FALSE, 0) }

\* the lines of an input file whose records do not carry the RERUN_KEY
PlainShapes == { s \in LineShapes : ~s.rerun }

\* input files of n lines of the given shapes: line k carries payload k
InputsOfLen(shapes, n) ==
    { [k \in 1..n |-> Line(s[k].kind, s[k].id, s[k].rerun, k)] : s \in [1..n -> shapes] }

RECURSIVE SumOver(_, _)
SumOver(f, S) ==
    IF S = {} THEN 0
    ELSE LET x == CHOOSE y \in S : TRUE IN f[x] + SumOver(f, S \ {x})

Sum(f) == SumOver(f, DOMAIN f)

-----------------------------------------------------------------------------
(* _load_processed_state: the loop body for one line of OUTPUT_FILE.       *)
(* acc = [ids, raised]; an AttributeError (data.get on a non-object) is    *)
(* not caught by `except json.JSONDecodeError` and leaves the loader.      *)

LoadLineNoRerunCheck(cfg, line, acc) ==
    IF line.kind = "bad" THEN acc
    ELSE IF line.kind = "other" THEN [acc EXCEPT !.raised = TRUE]
    ELSE IF line.id = "" THEN acc
    ELSE [acc EXCEPT !.ids = @ \cup {line.id}]

LoadLine(cfg, line, acc) ==
    IF line.kind = "bad" THEN acc
    ELSE IF line.kind = "other" THEN [acc EXCEPT !.raised = TRUE]
    ELSE IF line.id = "" THEN acc
    ELSE IF cfg.RERUN_KEY # "" /\ line.rerun THEN acc
    ELSE [acc EXCEPT !.ids = @ \cup {line.id}]

RECURSIVE LoadFrom(_, _, _, _)
LoadFrom(cfg, file, k, acc) ==
    IF k > Len(file) \/ acc.raised THEN acc
    ELSE LoadFrom(cfg, file, k + 1, LoadLine(cfg, file[k], acc))

load_processed_state(cfg, file) ==
    LoadFrom(cfg, file, 1, [ids |-> {}, raised |-> FALSE])

(* _get_tasks_to_process: the loop body for one line of INPUT_FILE.        *)
(* acc = [tasks, warnings, line_num, raised].  `continue` after the        *)
(* missing-ID warning skips `line_num += 1`.                               *)

SelectLineNoFilter(processed, line, acc) ==
    IF line.kind = "bad" THEN
        [acc EXCEPT !.warnings = Append(@, acc.line_num), !.line_num = @ + 1]
    ELSE IF line.kind = "other" THEN [acc EXCEPT !.raised = TRUE]
    ELSE IF line.id = "" THEN [acc EXCEPT !.warnings = Append(@, acc.line_num)]
    ELSE [acc EXCEPT !.tasks = Append(@, line), !.line_num = @ + 1]

SelectLine(processed, line, acc) ==
    IF line.kind = "bad" THEN
        [acc EXCEPT !.warnings = Append(@, acc.line_num), !.line_num = @ + 1]
    ELSE IF line.kind = "other" THEN [acc EXCEPT !.raised = TRUE]
    ELSE IF line.id = "" THEN [acc EXCEPT !.warnings = Append(@, acc.line_num)]
    ELSE IF line.id \notin processed THEN
        [acc EXCEPT !.tasks = Append(@, line), !.line_num = @ + 1]
    ELSE [acc EXCEPT !.line_num = @ + 1]

RECURSIVE SelectFrom(_, _, _, _)
SelectFrom(processed, file, k, acc) ==
    IF k > Len(file) \/ acc.raised THEN acc
    ELSE SelectFrom(processed, file, k + 1, SelectLine(processed, file[k], acc))

get_tasks_to_process(processed, file) ==
    SelectFrom(processed, file, 1,
               [tasks |-> << >>, warnings |-> << >>, line_num |-> 1, raised |-> FALSE])

-----------------------------------------------------------------------------
(* Conditions and computations of _run_processing_loop and of the retry    *)
(* decorator, one operator per expression of the source.                   *)

\* retries of the decorator on user_logic.process_record
USER_RETRIES == 3

\* request_delay = 60.0 / rpm if rpm and rpm > 0 else 0
request_delay(rpm) == IF rpm > 0 THEN 60 \div rpm ELSE 0

\* the argument of asyncio.sleep inside the rate-limit lock (0: no sleep)
rate_limit_sleep_none(now, last, delay) == 0

rate_limit_sleep(now, last, delay) ==
    IF now - last < delay THEN delay - (now - last) ELSE 0

\* asyncio.Semaphore.locked(): `async with semaphore` has to wait
semaphore_never_locked(value) == FALSE

semaphore_locked(value) == value <= 0

\* `if i == retries:` of retry_with_backoff.wrapper: the error is re-raised
retries_exhausted_late(i, retries) == i = retries + 1

retries_exhausted(i, retries) == i = retries

\* the branches of the outcome loop: the batches a result is appended to.
\* kind "exc": the tuple (e, task) returned by worker; "none": None;
\* "value": anything else.
classify_if_not_elif(kind) ==
    IF kind = "exc" THEN {"errors", "results"}
    ELSE IF kind # "none" THEN {"results"}
    ELSE {}

classify_none_as_value(kind) ==
    IF kind = "exc" THEN {"errors"} ELSE {"results"}

classify(kind) ==
    IF kind = "exc" THEN {"errors"}
    ELSE IF kind # "none" THEN {"results"}
    ELSE {}

\* the failure record built for a task
failure_record(task) ==
    [record_id |-> task.id, error_message |-> "err", original_record |-> task]

\* the result a finished worker hands to the outcome loop
result_kind(pc) ==
    IF pc = "failed" THEN "exc" ELSE IF pc = "voided" THEN "none" ELSE "value"

Workers == DOMAIN tasks

\* tasks inside `async with semaphore`
Holding == { t \in DOMAIN wpc : wpc[t] \in {"lockwait", "rlsleep", "running",
                                         "inner_backoff", "backoff"} }

WriteSites == {"wr_ok", "wr_err", "fin_ok", "fin_err"}

\* the batch the running _write_batch was called with
batch_of(site) ==
    IF site \in {"wr_ok", "fin_ok"} THEN results_batch ELSE errors_batch

\* the payloads of the records of a batch
Payloads(batch, isErr) ==
    { IF isErr THEN batch[k].original_record.v ELSE batch[k].v : k \in 1..Len(batch) }

-----------------------------------------------------------------------------
(* run(): the stages before the dispatcher *)

NoWorkers == << >>

\* await self._load_processed_state()
LoadProcessedState ==
    /\ phase = "load"
    /\ LET r == load_processed_state(config, outFile) IN
        /\ processed_ids' = r.ids
        /\ phase' = IF r.raised THEN "crashed" ELSE "select"
    /\ UNCHANGED << endVars, lost, cancelAt, config, wired, fileVars, runNo, tasks, warnings, workerVars,
                    clock, doneQ, loopVars, cancelled, outLen0, errLen0, marked, live >>

\* tasks_to_process = await self._get_tasks_to_process(); `if not tasks_to_process: return`
GetTasksToProcess ==
    /\ phase = "select"
    /\ LET r == get_tasks_to_process(processed_ids, input) IN
        /\ tasks' = IF r.raised THEN << >> ELSE r.tasks
        /\ warnings' = r.warnings
        /\ phase' = IF r.raised THEN "crashed"
                    ELSE IF r.tasks = << >> THEN "done" ELSE "startup"
    /\ UNCHANGED << endVars, lost, cancelAt, config, wired, fileVars, runNo, processed_ids, workerVars,
                    clock, doneQ, loopVars, cancelled, outLen0, errLen0, marked, live >>

\* on_startup, the session, and the set-up of _run_processing_loop up to the
\* first `await future`: every worker is scheduled and waits for the semaphore
StartDispatch ==
    /\ phase = "startup"
    /\ phase' = "dispatch"
    /\ wpc' = [t \in Workers |-> "queued"]
    /\ attempt' = [t \in Workers |-> 0]
    /\ inner' = [t \in Workers |-> 0]
    /\ calls' = [t \in Workers |-> 0]
    /\ raises' = [t \in Workers |-> 0]
    /\ bodyExecs' = [t \in Workers |-> 0]
    /\ wake' = [t \in Workers |-> 0]
    /\ semaphore' = config.MAX_CONCURRENCY
    /\ mpc' = "await"
    /\ results_batch' = << >>
    /\ errors_batch' = << >>
    /\ success_count' = 0
    /\ error_count' = 0
    /\ session' = "open"
    /\ live' = tasks
    /\ cancelAt' = [t \in Workers |-> -1]
    /\ UNCHANGED << hookCalls, hookResult, report, exc, lost, config, wired,
                    fileVars, runNo, processed_ids, tasks, warnings,
                    rate_limit_lock, last_request_time, clock, starts, rlPasses,
                    doneQ, consumed, cur, wi, cancelled, nOk, nErr, handed,
                    outLen0, errLen0, marked >>

-----------------------------------------------------------------------------
(* worker(task): async with semaphore: robust_processor(task)              *)

\* the wrapper calls rate_limited_process: without a rate limit process_func
\* starts at once, with one the coroutine goes for the rate-limit lock
EnterCall(t) ==
    /\ calls' = [calls EXCEPT ![t] = @ + 1]
    /\ IF request_delay(config.REQUESTS_PER_MINUTE) > 0
       THEN /\ wpc' = [wpc EXCEPT ![t] = "lockwait"]
            /\ UNCHANGED << inner, bodyExecs, starts >>
       ELSE /\ wpc' = [wpc EXCEPT ![t] = "running"]
            /\ inner' = [inner EXCEPT ![t] = 0]
            /\ bodyExecs' = [bodyExecs EXCEPT ![t] = @ + 1]
            /\ starts' = Append(starts, clock)

\* async with semaphore: the slot is taken; wrapper starts with i = 0
Acquire(t) ==
    /\ phase = "dispatch"
    /\ wpc[t] = "queued"
    /\ ~semaphore_locked(semaphore)
    /\ semaphore' = semaphore - 1
    /\ attempt' = [attempt EXCEPT ![t] = 0]
    /\ EnterCall(t)
    /\ UNCHANGED << endVars, lost, cancelAt, config, wired, fileVars, phase, runNo, processed_ids, tasks,
                    warnings, raises, rate_limit_lock, last_request_time, clock,
                    wake, rlPasses, doneQ, loopVars, cancelled, outLen0, errLen0,
                    marked, live >>

\* async with self._rate_limit_lock: now, elapsed, and either the sleep under
\* the lock or the update of _last_request_time and the start of process_func
RateLimitEnter(t) ==
    /\ phase = "dispatch"
    /\ wpc[t] = "lockwait"
    /\ rate_limit_lock = 0
    /\ LET d == rate_limit_sleep(clock, last_request_time,
                                 request_delay(config.REQUESTS_PER_MINUTE)) IN
        IF d > 0
        THEN /\ rate_limit_lock' = t
             /\ wake' = [wake EXCEPT ![t] = clock + d]
             /\ wpc' = [wpc EXCEPT ![t] = "rlsleep"]
             /\ UNCHANGED << last_request_time, rlPasses, inner, bodyExecs, starts >>
        ELSE /\ last_request_time' = clock
             /\ rlPasses' = rlPasses + 1
             /\ wpc' = [wpc EXCEPT ![t] = "running"]
             /\ inner' = [inner EXCEPT ![t] = 0]
             /\ bodyExecs' = [bodyExecs EXCEPT ![t] = @ + 1]
             /\ starts' = Append(starts, clock)
             /\ UNCHANGED << rate_limit_lock, wake >>
    /\ UNCHANGED << endVars, lost, cancelAt, config, wired, fileVars, phase, runNo, processed_ids, tasks,
                    warnings, attempt, calls, raises, semaphore, clock, doneQ,
                    loopVars, cancelled, outLen0, errLen0, marked, live >>

\* the sleep under the lock is over: _last_request_time = time.monotonic(),
\* the lock is released and process_func starts
RateLimitWake(t) ==
    /\ phase = "dispatch"
    /\ wpc[t] = "rlsleep"
    /\ clock >= wake[t]
    /\ last_request_time' = clock
    /\ rate_limit_lock' = 0
    /\ rlPasses' = rlPasses + 1
    /\ wpc' = [wpc EXCEPT ![t] = "running"]
    /\ inner' = [inner EXCEPT ![t] = 0]
    /\ bodyExecs' = [bodyExecs EXCEPT ![t] = @ + 1]
    /\ starts' = Append(starts, clock)
    /\ UNCHANGED << endVars, lost, cancelAt, config, wired, fileVars, phase, runNo, processed_ids, tasks,
                    warnings, attempt, calls, raises, semaphore, clock, wake,
                    doneQ, loopVars, cancelled, outLen0, errLen0, marked, live >>

\* a worker that ends without leaving `async with semaphore`
FinishKeepsSlot(t, pc) ==
    /\ wpc' = [wpc EXCEPT ![t] = pc]
    /\ semaphore' = semaphore
    /\ doneQ' = Append(doneQ, t)

\* the worker is over: the semaphore is released and as_completed gets the result
Finish(t, pc) ==
    /\ wpc' = [wpc EXCEPT ![t] = pc]
    /\ semaphore' = semaphore + 1
    /\ doneQ' = Append(doneQ, t)

\* record["processed_by"] = ...: the dict gains a key, its other keys stay
write_field(rec) ==
    [x \in DOMAIN rec \cup {"processed_by"} |->
        IF x = "processed_by" THEN "JsonlBatch" ELSE rec[x]]

\* process_record writes into the record it was passed, before the statement
\* that may still raise (api_data["args"]) and before its return
UserWrites(t) ==
    /\ phase = "dispatch"
    /\ wpc[t] = "running"
    /\ "processed_by" \notin DOMAIN live[t]
    /\ live' = [live EXCEPT ![t] = write_field(@)]
    /\ UNCHANGED << endVars, lost, cancelAt, config, wired, fileVars, phase,
                    runNo, processed_ids, tasks, warnings, workerVars, clock,
                    doneQ, loopVars, cancelled, outLen0, errLen0, marked >>

\* the body of the user function returns a record or None
UserReturns(t) ==
    /\ phase = "dispatch"
    /\ wpc[t] = "running"
    /\ \E pc \in {"succeeded", "voided"} : Finish(t, pc)
    /\ UNCHANGED << endVars, lost, cancelAt, config, wired, fileVars, phase, runNo, processed_ids, tasks,
                    warnings, attempt, inner, calls, raises, bodyExecs,
                    rate_limit_lock, last_request_time, clock, wake, starts,
                    rlPasses, loopVars, cancelled, outLen0, errLen0, marked, live >>

\* the body of the user function raises: the decorator on process_record
\* (if wired) retries it; otherwise the error reaches the wrapper built by
\* the dispatcher, which sleeps and retries or re-raises into worker's
\* `except Exception`
UserRaises(t) ==
    /\ phase = "dispatch"
    /\ wpc[t] = "running"
    /\ IF wired /\ ~retries_exhausted(inner[t], USER_RETRIES)
       THEN /\ wpc' = [wpc EXCEPT ![t] = "inner_backoff"]
            /\ UNCHANGED << raises, semaphore, doneQ >>
       ELSE /\ raises' = [raises EXCEPT ![t] = @ + 1]
            /\ IF retries_exhausted(attempt[t], config.MAX_RETRIES)
               THEN Finish(t, "failed")
               ELSE /\ wpc' = [wpc EXCEPT ![t] = "backoff"]
                    /\ UNCHANGED << semaphore, doneQ >>
    /\ UNCHANGED << endVars, lost, cancelAt, config, wired, fileVars, phase, runNo, processed_ids, tasks,
                    warnings, attempt, inner, calls, bodyExecs, rate_limit_lock,
                    last_request_time, clock, wake, starts, rlPasses, loopVars,
                    cancelled, outLen0, errLen0, marked, live >>

\* the backoff sleep of the decorator on process_record is over: next attempt of the body
InnerRetry(t) ==
    /\ phase = "dispatch"
    /\ wpc[t] = "inner_backoff"
    /\ wpc' = [wpc EXCEPT ![t] = "running"]
    /\ inner' = [inner EXCEPT ![t] = @ + 1]
    /\ bodyExecs' = [bodyExecs EXCEPT ![t] = @ + 1]
    /\ UNCHANGED << endVars, lost, cancelAt, config, wired, fileVars, phase, runNo, processed_ids, tasks,
                    warnings, attempt, calls, raises, semaphore, rate_limit_lock,
                    last_request_time, clock, wake, starts, rlPasses, doneQ,
                    loopVars, cancelled, outLen0, errLen0, marked, live >>

\* the backoff sleep of robust_processor is over: next i, next call
Retry(t) ==
    /\ phase = "dispatch"
    /\ wpc[t] = "backoff"
    /\ attempt' = [attempt EXCEPT ![t] = @ + 1]
    /\ EnterCall(t)
    /\ UNCHANGED << endVars, lost, cancelAt, config, wired, fileVars, phase, runNo, processed_ids, tasks,
                    warnings, raises, semaphore, rate_limit_lock,
                    last_request_time, clock, wake, rlPasses, doneQ, loopVars,
                    cancelled, outLen0, errLen0, marked, live >>

\* worker with `except BaseException`: the CancelledError becomes the
\* failure result (e, task)
CancelTaskAsFailure(t) ==
    /\ phase = "dispatch"
    /\ wpc[t] \in {"lockwait", "rlsleep", "running", "inner_backoff", "backoff"}
    /\ cancelAt' = [cancelAt EXCEPT ![t] = calls[t]]
    /\ rate_limit_lock' = IF rate_limit_lock = t THEN 0 ELSE rate_limit_lock
    /\ Finish(t, "failed")
    /\ UNCHANGED << endVars, lost, config, wired, fileVars, phase, runNo,
                    processed_ids, tasks, warnings, attempt, inner, calls, raises,
                    bodyExecs, last_request_time, clock, wake, starts, rlPasses,
                    loopVars, cancelled, outLen0, errLen0, marked, live >>

\* a cancellation is delivered to the task of worker(t) while it is suspended
\* in an attempt (waiting for the rate-limit lock, sleeping under it, inside
\* process_func) or in a backoff sleep: CancelledError is no Exception, so it
\* passes the `except Exception` of wrapper and of worker; the rate-limit lock
\* and the semaphore are released on the way out and the task ends cancelled
CancelTask(t) ==
    /\ phase = "dispatch"
    /\ wpc[t] \in {"lockwait", "rlsleep", "running", "inner_backoff", "backoff"}
    /\ cancelAt' = [cancelAt EXCEPT ![t] = calls[t]]
    /\ rate_limit_lock' = IF rate_limit_lock = t THEN 0 ELSE rate_limit_lock
    /\ Finish(t, "cancelled")
    /\ UNCHANGED << endVars, lost, config, wired, fileVars, phase, runNo,
                    processed_ids, tasks, warnings, attempt, inner, calls, raises,
                    bodyExecs, last_request_time, clock, wake, starts, rlPasses,
                    loopVars, cancelled, outLen0, errLen0, marked, live >>

\* asyncio.sleep(request_delay - elapsed) ends: the clock has reached the
\* end of the sleep, however far that is
SleepElapses(t) ==
    /\ phase = "dispatch"
    /\ wpc[t] = "rlsleep"
    /\ clock < wake[t]
    /\ clock' = wake[t]
    /\ UNCHANGED << endVars, lost, cancelAt, config, wired, fileVars, phase,
                    runNo, processed_ids, tasks, warnings, workerVars, doneQ,
                    loopVars, cancelled, outLen0, errLen0, marked, live >>

\* the monotonic clock advances (followed where it is read: under a rate limit)
Tick ==
    /\ phase = "dispatch"
    /\ request_delay(config.REQUESTS_PER_MINUTE) > 0
    /\ clock < MaxTime
    /\ clock' = clock + 1
    /\ UNCHANGED << endVars, lost, cancelAt, config, wired, fileVars, phase, runNo, processed_ids, tasks,
                    warnings, workerVars, doneQ, loopVars, cancelled, outLen0,
                    errLen0, marked, live >>

-----------------------------------------------------------------------------
(* _run_processing_loop: the outcome loop `for future in pbar` and the     *)
(* finally block, with _write_batch                                        *)

\* where the loop goes after the last statement of an iteration
next_iteration(c) == IF c = Len(tasks) THEN "fin_log" ELSE "await"

\* the two `if len(...) >= WRITE_BATCH_SIZE` at the end of an iteration
after_outcome(rb, eb, c) ==
    IF Len(rb) >= config.WRITE_BATCH_SIZE THEN "wr_ok"
    ELSE IF Len(eb) >= config.WRITE_BATCH_SIZE THEN "wr_err"
    ELSE next_iteration(c)

\* _write_batch is called with a batch for a file
hand_over(site, rb, eb) ==
    IF site \in {"wr_ok", "fin_ok"}
    THEN [handed EXCEPT !.ok = @ \cup Payloads(rb, FALSE)]
    ELSE IF site \in {"wr_err", "fin_err"}
    THEN [handed EXCEPT !.err = @ \cup Payloads(eb, TRUE)]
    ELSE handed

\* the bookkeeping of one classified result: batches, counters, flush test
Record(t, dests) ==
    LET rb == IF "results" \in dests THEN Append(results_batch, live[t])
              ELSE results_batch
        eb == IF "errors" \in dests THEN Append(errors_batch, failure_record(live[t]))
              ELSE errors_batch
        site == after_outcome(rb, eb, consumed')
    IN  /\ results_batch' = rb
        /\ errors_batch' = eb
        /\ success_count' = IF "results" \in dests THEN success_count + 1 ELSE success_count
        /\ error_count' = IF "errors" \in dests THEN error_count + 1 ELSE error_count
        /\ nOk' = IF "results" \in dests THEN [nOk EXCEPT ![tasks[t].v] = @ + 1] ELSE nOk
        /\ nErr' = IF "errors" \in dests THEN [nErr EXCEPT ![tasks[t].v] = @ + 1] ELSE nErr
        /\ mpc' = site
        /\ wi' = 0
        /\ handed' = hand_over(site, rb, eb)

\* result = await future, and its classification; a failure is logged first
\* (`await logger.error`) and recorded after that
Consume ==
    /\ phase = "dispatch"
    /\ mpc = "await"
    /\ doneQ # << >>
    /\ wpc[Head(doneQ)] # "cancelled"
    /\ LET t == Head(doneQ)
           dests == classify(result_kind(wpc[t]))
       IN /\ doneQ' = Tail(doneQ)
          /\ consumed' = consumed + 1
          /\ IF "errors" \in dests
             THEN /\ mpc' = "logerr"
                  /\ cur' = t
                  /\ UNCHANGED << results_batch, errors_batch, success_count,
                                  error_count, wi, nOk, nErr, handed >>
             ELSE /\ cur' = 0
                  /\ Record(t, dests)
    /\ UNCHANGED << endVars, lost, cancelAt, config, wired, fileVars, phase, runNo, processed_ids, tasks,
                    warnings, workerVars, clock, cancelled, outLen0, errLen0,
                    marked, live >>

\* result = await future for a task that was cancelled: the await raises
\* CancelledError in the outcome loop and control passes to the finally block
ConsumeCancelled ==
    /\ phase = "dispatch"
    /\ mpc = "await"
    /\ doneQ # << >>
    /\ wpc[Head(doneQ)] = "cancelled"
    /\ doneQ' = Tail(doneQ)
    /\ consumed' = consumed + 1
    /\ cancelled' = "task"
    /\ mpc' = "fin_log"
    /\ UNCHANGED << endVars, lost, cancelAt, config, wired, fileVars, phase,
                    runNo, processed_ids, tasks, warnings, workerVars, clock, cur,
                    results_batch, errors_batch, success_count, error_count, wi,
                    nOk, nErr, handed, outLen0, errLen0, marked, live >>

\* errors_batch.append(...); error_count += 1 and the end of the iteration
LogErrorDone ==
    /\ phase = "dispatch"
    /\ mpc = "logerr"
    /\ cur' = 0
    /\ consumed' = consumed
    /\ Record(cur, classify(result_kind(wpc[cur])))
    /\ UNCHANGED << endVars, lost, cancelAt, config, wired, fileVars, phase, runNo, processed_ids, tasks,
                    warnings, workerVars, clock, doneQ, cancelled, outLen0,
                    errLen0, marked, live >>

\* _write_batch: await f.write(json.dumps(item) + '\n') for the next item
WriteItem ==
    /\ phase = "dispatch"
    /\ mpc \in WriteSites
    /\ wi < Len(batch_of(mpc))
    /\ IF mpc \in {"wr_ok", "fin_ok"}
       THEN /\ outFile' = Append(outFile, results_batch[wi + 1])
            /\ UNCHANGED errFile
       ELSE /\ errFile' = Append(errFile, errors_batch[wi + 1])
            /\ UNCHANGED outFile
    /\ wi' = wi + 1
    /\ UNCHANGED << endVars, lost, cancelAt, config, wired, input, phase, runNo, processed_ids, tasks,
                    warnings, workerVars, clock, doneQ, mpc, consumed, cur,
                    results_batch, errors_batch, success_count, error_count,
                    cancelled, nOk, nErr, handed, outLen0, errLen0, marked, live >>

\* _write_batch has returned: the statement after the call
AfterWrite ==
    /\ consumed' = consumed
    /\ cur' = cur
    /\ wi' = 0
    /\ UNCHANGED << success_count, error_count, nOk, nErr >>
    /\ IF mpc = "wr_ok"
       THEN LET site == IF Len(errors_batch) >= config.WRITE_BATCH_SIZE
                        THEN "wr_err" ELSE next_iteration(consumed)
            IN /\ results_batch' = << >>
               /\ errors_batch' = errors_batch
               /\ mpc' = site
               /\ handed' = hand_over(site, << >>, errors_batch)
               /\ phase' = phase
       ELSE IF mpc = "wr_err"
       THEN /\ errors_batch' = << >>
            /\ results_batch' = results_batch
            /\ mpc' = next_iteration(consumed)
            /\ handed' = handed
            /\ phase' = phase
       ELSE IF mpc = "fin_ok"
       THEN /\ mpc' = "fin_err"
            /\ handed' = hand_over("fin_err", results_batch, errors_batch)
            /\ UNCHANGED << results_batch, errors_batch, phase >>
       ELSE /\ mpc' = IF cancelled = "no" THEN "returned" ELSE "raised"
            /\ phase' = "shutdown"
            /\ UNCHANGED << results_batch, errors_batch, handed >>

\* the file is closed and _write_batch returns (at once for an empty batch)
WriteEnd ==
    /\ phase = "dispatch"
    /\ mpc \in WriteSites
    /\ wi = Len(batch_of(mpc))
    /\ AfterWrite
    /\ UNCHANGED << endVars, lost, cancelAt, config, wired, fileVars, runNo, processed_ids, tasks,
                    warnings, workerVars, clock, doneQ, cancelled, outLen0,
                    errLen0, marked, live >>

\* _write_batch without its `except OSError`: the error leaves the dispatcher
WriteFailPropagates ==
    /\ phase = "dispatch"
    /\ mpc \in WriteSites
    /\ wi < Len(batch_of(mpc))
    /\ mpc' = "raised"
    /\ phase' = "shutdown"
    /\ wi' = 0
    /\ lost' = IF mpc \in {"wr_ok", "fin_ok"}
               THEN [lost EXCEPT !.ok = @ \cup Payloads(results_batch, FALSE)]
               ELSE [lost EXCEPT !.err = @ \cup Payloads(errors_batch, TRUE)]
    /\ UNCHANGED << endVars, cancelAt, config, wired, fileVars, runNo,
                    processed_ids, tasks, warnings, workerVars, clock, doneQ,
                    consumed, cur, results_batch, errors_batch, success_count,
                    error_count, nOk, nErr, handed, cancelled, outLen0, errLen0,
                    marked, live >>

\* an OSError in _write_batch: logged, swallowed, the rest of the batch is not written
WriteFail ==
    /\ phase = "dispatch"
    /\ mpc \in WriteSites
    /\ wi < Len(batch_of(mpc))
    /\ AfterWrite
    /\ lost' = IF mpc \in {"wr_ok", "fin_ok"}
               THEN [lost EXCEPT !.ok = @ \cup Payloads(results_batch, FALSE)]
               ELSE [lost EXCEPT !.err = @ \cup Payloads(errors_batch, TRUE)]
    /\ UNCHANGED << endVars, cancelAt, config, wired, fileVars, runNo, processed_ids, tasks,
                    warnings, workerVars, clock, doneQ, cancelled, outLen0,
                    errLen0, marked, live >>

\* finally: await logger.info(...), then _write_batch(results_batch, OUTPUT_FILE)
FinallyLog ==
    /\ phase = "dispatch"
    /\ mpc = "fin_log"
    /\ mpc' = "fin_ok"
    /\ wi' = 0
    /\ handed' = hand_over("fin_ok", results_batch, errors_batch)
    /\ UNCHANGED << endVars, lost, cancelAt, config, wired, fileVars, phase, runNo, processed_ids, tasks,
                    warnings, workerVars, clock, doneQ, consumed, cur,
                    results_batch, errors_batch, success_count, error_count,
                    cancelled, nOk, nErr, outLen0, errLen0, marked, live >>

\* the flush outside a finally block: the cancellation leaves the function at once
CancelWithoutFinally ==
    /\ phase = "dispatch"
    /\ cancelled = "no"
    /\ mpc \in {"await", "logerr", "wr_ok", "wr_err"}
    /\ cancelled' = "loop"
    /\ mpc' = "raised"
    /\ phase' = "shutdown"
    /\ cur' = 0
    /\ wi' = 0
    /\ UNCHANGED << endVars, lost, cancelAt, config, wired, fileVars, runNo, processed_ids, tasks,
                    warnings, workerVars, clock, doneQ, consumed, results_batch,
                    errors_batch, success_count, error_count, nOk, nErr, handed,
                    outLen0, errLen0, marked, live >>

\* a cancellation reaches the outcome loop at one of its suspension points:
\* CancelledError is raised there and control passes to the finally block
Cancel ==
    /\ phase = "dispatch"
    /\ cancelled = "no"
    /\ mpc \in {"await", "logerr", "wr_ok", "wr_err"}
    /\ cancelled' = "loop"
    /\ mpc' = "fin_log"
    /\ cur' = 0
    /\ wi' = 0
    /\ UNCHANGED << endVars, lost, cancelAt, config, wired, fileVars, phase, runNo, processed_ids, tasks,
                    warnings, workerVars, clock, doneQ, consumed, results_batch,
                    errors_batch, success_count, error_count, nOk, nErr, handed,
                    outLen0, errLen0, marked, live >>

\* a cancellation reaches the finally block at one of its suspension points:
\* CancelledError leaves _run_processing_loop from there
CancelInFinally ==
    /\ phase = "dispatch"
    /\ cancelled = "no"
    /\ mpc \in {"fin_log", "fin_ok", "fin_err"}
    /\ cancelled' = "finally"
    /\ mpc' = "raised"
    /\ phase' = "shutdown"
    /\ wi' = 0
    /\ UNCHANGED << endVars, lost, cancelAt, config, wired, fileVars, runNo, processed_ids, tasks,
                    warnings, workerVars, clock, doneQ, consumed, cur,
                    results_batch, errors_batch, success_count, error_count,
                    nOk, nErr, handed, outLen0, errLen0, marked, live >>

-----------------------------------------------------------------------------
(* run(): after the dispatcher; the next run; the edit of the success file *)

\* `context = await on_startup() or {}` raises: control passes to the finally block of run()
\* before the session exists
StartupRaises ==
    /\ phase = "startup"
    /\ phase' = "shutdown"
    /\ exc' = "StartupError"
    /\ UNCHANGED << session, hookCalls, hookResult, report, lost, cancelAt,
                    config, wired, fileVars, runNo, processed_ids, tasks,
                    warnings, workerVars, clock, doneQ, loopVars, cancelled,
                    outLen0, errLen0, marked, live >>

\* _run_processing_loop is over and the `async with aiohttp.ClientSession()`
\* block is left, normally or by the CancelledError: the session is closed
CloseSession ==
    /\ phase = "shutdown"
    /\ session = "open"
    /\ session' = "closed"
    /\ exc' = IF mpc = "raised" THEN "CancelledError" ELSE exc
    /\ UNCHANGED << hookCalls, hookResult, report, lost, cancelAt, config, wired,
                    fileVars, phase, runNo, processed_ids, tasks, warnings,
                    workerVars, clock, doneQ, loopVars, cancelled, outLen0,
                    errLen0, marked, live >>

\* finally: `if on_shutdown: await on_shutdown(context)` - the hook is entered
OnShutdown ==
    /\ phase = "shutdown"
    /\ session # "open"
    /\ phase' = "on_shutdown"
    /\ hookCalls' = hookCalls + 1
    /\ UNCHANGED << session, hookResult, report, exc, lost, cancelAt, config,
                    wired, fileVars, runNo, processed_ids, tasks, warnings,
                    workerVars, clock, doneQ, loopVars, cancelled, outLen0,
                    errLen0, marked, live >>

\* on_shutdown returns: the finally block goes on to the report
OnShutdownReturns ==
    /\ phase = "on_shutdown"
    /\ phase' = "report"
    /\ hookResult' = "returned"
    /\ UNCHANGED << session, hookCalls, report, exc, lost, cancelAt, config,
                    wired, fileVars, runNo, processed_ids, tasks, warnings,
                    workerVars, clock, doneQ, loopVars, cancelled, outLen0,
                    errLen0, marked, live >>

\* on_shutdown raises: nothing in run() catches it, the error leaves the
\* finally block (and run) in place of whatever was in flight
OnShutdownRaises ==
    /\ phase = "on_shutdown"
    /\ phase' = "crashed"
    /\ hookResult' = "raised"
    /\ exc' = "ShutdownError"
    /\ UNCHANGED << session, hookCalls, report, lost, cancelAt, config, wired,
                    fileVars, runNo, processed_ids, tasks, warnings, workerVars,
                    clock, doneQ, loopVars, cancelled, outLen0, errLen0, marked, live >>

\* the items of the report
ReportHead == {"duration", "skipped", "attempted"}
ReportCounts == {"success", "failure"}

\* success_count and error_count are bound in run() once the assignment from
\* `await self._run_processing_loop(...)` has been executed
counts_bound == mpc = "returned"

\* the final report: the lines up to the planned count, then the two lines
\* that read success_count and error_count (UnboundLocalError if unbound);
\* after the report the exception in flight, if any, leaves run()
FinalReport ==
    /\ phase = "report"
    /\ IF counts_bound
       THEN /\ report' = ReportHead \cup ReportCounts
            /\ exc' = exc
            /\ phase' = IF exc = "none" THEN "done" ELSE "crashed"
       ELSE /\ report' = ReportHead
            /\ exc' = "UnboundLocalError"
            /\ phase' = "crashed"
    /\ UNCHANGED << session, hookCalls, hookResult, lost, cancelAt, config,
                    wired, fileVars, runNo, processed_ids, tasks, warnings,
                    workerVars, clock, doneQ, loopVars, cancelled, outLen0,
                    errLen0, marked, live >>

\* the engine is started a second time on the same files: a new
\* JsonlBatchProcessor in a new process
NextRun ==
    /\ phase = "done"
    /\ runNo = 1
    /\ runNo' = runNo + 1
    /\ phase' = "load"
    /\ processed_ids' = {}
    /\ tasks' = << >>
    /\ warnings' = << >>
    /\ wpc' = NoWorkers
    /\ attempt' = NoWorkers
    /\ inner' = NoWorkers
    /\ calls' = NoWorkers
    /\ raises' = NoWorkers
    /\ bodyExecs' = NoWorkers
    /\ wake' = NoWorkers
    /\ semaphore' = 0
    /\ rate_limit_lock' = 0
    /\ last_request_time' = 0
    /\ starts' = << >>
    /\ rlPasses' = 0
    /\ doneQ' = << >>
    /\ mpc' = "idle"
    /\ consumed' = 0
    /\ cur' = 0
    /\ results_batch' = << >>
    /\ errors_batch' = << >>
    /\ success_count' = 0
    /\ error_count' = 0
    /\ wi' = 0
    /\ cancelled' = "no"
    /\ nOk' = [k \in 1..Len(input) |-> 0]
    /\ nErr' = [k \in 1..Len(input) |-> 0]
    /\ handed' = [ok |-> {}, err |-> {}]
    /\ outLen0' = Len(outFile)
    /\ errLen0' = Len(errFile)
    /\ session' = "none"
    /\ hookCalls' = 0
    /\ hookResult' = "none"
    /\ report' = {}
    /\ exc' = "none"
    /\ lost' = [ok |-> {}, err |-> {}]
    /\ cancelAt' = NoWorkers
    /\ live' = NoWorkers
    /\ UNCHANGED << config, wired, input, outFile, errFile, clock, marked >>

\* between two runs the RERUN_KEY is added to one line of the success file
MarkRerun(k) ==
    /\ phase = "done"
    /\ runNo = 1
    /\ marked.id = ""
    /\ config.RERUN_KEY # ""
    /\ k \in 1..Len(outFile)
    /\ ~outFile[k].rerun
    /\ outFile' = [outFile EXCEPT ![k].rerun = TRUE]
    /\ marked' = [id |-> outFile[k].id, run |-> runNo]
    /\ UNCHANGED << endVars, lost, cancelAt, config, wired, input, errFile, phase, runNo, processed_ids,
                    tasks, warnings, workerVars, clock, doneQ, loopVars,
                    cancelled, outLen0, errLen0, live >>

-----------------------------------------------------------------------------
(* Specifications *)

Config(conc, rpm, wbs, retries, rerun) ==
    [MAX_CONCURRENCY |-> conc, REQUESTS_PER_MINUTE |-> rpm, WRITE_BATCH_SIZE |-> wbs,
     MAX_RETRIES |-> retries, RERUN_KEY |-> rerun]

InitWith(configs, wirings, inputs, clocks) ==
    /\ config \in configs
    /\ wired \in wirings
    /\ input \in inputs
    /\ outFile = << >>
    /\ errFile = << >>
    /\ phase = "load"
    /\ runNo = 1
    /\ processed_ids = {}
    /\ tasks = << >>
    /\ warnings = << >>
    /\ wpc = NoWorkers
    /\ attempt = NoWorkers
    /\ inner = NoWorkers
    /\ calls = NoWorkers
    /\ raises = NoWorkers
    /\ bodyExecs = NoWorkers
    /\ wake = NoWorkers
    /\ semaphore = 0
    /\ rate_limit_lock = 0
    /\ last_request_time = 0
    /\ clock \in clocks
    /\ starts = << >>
    /\ rlPasses = 0
    /\ doneQ = << >>
    /\ mpc = "idle"
    /\ consumed = 0
    /\ cur = 0
    /\ results_batch = << >>
    /\ errors_batch = << >>
    /\ success_count = 0
    /\ error_count = 0
    /\ wi = 0
    /\ cancelled = "no"
    /\ nOk = [k \in 1..Len(input) |-> 0]
    /\ nErr = [k \in 1..Len(input) |-> 0]
    /\ handed = [ok |-> {}, err |-> {}]
    /\ outLen0 = 0
    /\ errLen0 = 0
    /\ marked = [id |-> "", run |-> 0]
    /\ session = "none"
    /\ hookCalls = 0
    /\ hookResult = "none"
    /\ report = {}
    /\ exc = "none"
    /\ lost = [ok |-> {}, err |-> {}]
    /\ cancelAt = NoWorkers
    /\ live = NoWorkers

AllInputs == UNION { InputsOfLen(LineShapes, n) : n \in 0..MaxLines }

PlainInputs == UNION { InputsOfLen(PlainShapes, n) : n \in 0..MaxLines }

\* input files of records with an ID only
RecordInputs ==
    UNION { InputsOfLen({ s \in PlainShapes : s.kind = "obj" /\ s.id # "" }, n) :
            n \in 0..MaxLines }

\* one run of the engine without a rate limit and with an undecorated process
\* function, with cancellation and write errors
Init ==
    InitWith({Config(1, 0, 2, 1, "force_rerun"), Config(2, 0, 1, 0, "force_rerun")},
             {FALSE}, AllInputs, {0})

Next ==
    \/ LoadProcessedState
    \/ GetTasksToProcess
    \/ StartDispatch
    \/ \E t \in Workers : Acquire(t)
    \/ \E t \in Workers : UserReturns(t)
    \/ \E t \in Workers : UserRaises(t)
    \/ \E t \in Workers : Retry(t)
    \/ Consume
    \/ LogErrorDone
    \/ WriteItem
    \/ WriteEnd
    \/ WriteFail
    \/ FinallyLog
    \/ Cancel
    \/ CancelInFinally
    \/ StartupRaises
    \/ CloseSession
    \/ OnShutdown
    \/ OnShutdownReturns
    \/ OnShutdownRaises
    \/ FinalReport

Spec == Init /\ [][Next]_vars

\* the dispatcher with a rate limit of 30 requests per minute and an
\* undecorated process function, with as many slots as tasks and with fewer;
\* the monotonic clock starts below or above the request delay
InitRate ==
    InitWith({Config(2, 30, 1, 1, "force_rerun"), Config(1, 30, 2, 1, "force_rerun")},
             {FALSE}, AllInputs, {0, 2})

NextRate ==
    \/ LoadProcessedState
    \/ GetTasksToProcess
    \/ StartDispatch
    \/ \E t \in Workers : Acquire(t)
    \/ \E t \in Workers : RateLimitEnter(t)
    \/ \E t \in Workers : RateLimitWake(t)
    \/ \E t \in Workers : UserReturns(t)
    \/ \E t \in Workers : UserRaises(t)
    \/ \E t \in Workers : Retry(t)
    \/ Tick
    \/ Consume
    \/ LogErrorDone
    \/ WriteItem
    \/ WriteEnd
    \/ FinallyLog
    \/ CloseSession
    \/ OnShutdown
    \/ OnShutdownReturns
    \/ FinalReport

\* the same with the process function main.py passes to run():
\* user_logic.process_record, decorated with retry_with_backoff(retries=3)
InitWired ==
    InitWith({Config(2, 30, 1, 1, "force_rerun")}, {FALSE, TRUE}, AllInputs, {2})

NextWired ==
    \/ NextRate
    \/ \E t \in Workers : InnerRetry(t)

SpecWired == InitWired /\ [][NextWired]_vars

SpecRate == InitRate /\ [][NextRate]_vars

\* a run of the engine and a second run on the same files, with and without
\* a configured RERUN_KEY; between the runs one success line may be given the key
InitResume ==
    InitWith({Config(2, 0, 2, 0, "force_rerun"), Config(1, 0, 1, 0, "")},
             {FALSE}, PlainInputs, {0})

NextResume ==
    \/ LoadProcessedState
    \/ GetTasksToProcess
    \/ StartDispatch
    \/ \E t \in Workers : Acquire(t)
    \/ \E t \in Workers : UserReturns(t)
    \/ \E t \in Workers : UserRaises(t)
    \/ Consume
    \/ LogErrorDone
    \/ WriteItem
    \/ WriteEnd
    \/ WriteFail
    \/ FinallyLog
    \/ CloseSession
    \/ OnShutdown
    \/ OnShutdownReturns
    \/ FinalReport
    \/ NextRun
    \/ \E k \in 1..Len(outFile) : MarkRerun(k)

SpecResume == InitResume /\ [][NextResume]_vars

\* the dispatcher without a rate limit, with cancellations delivered to
\* single tasks
InitCancel ==
    InitWith({Config(2, 0, 2, 1, "force_rerun")}, {FALSE}, PlainInputs, {0})

NextCancel ==
    \/ LoadProcessedState
    \/ GetTasksToProcess
    \/ StartDispatch
    \/ \E t \in Workers : Acquire(t)
    \/ \E t \in Workers : UserReturns(t)
    \/ \E t \in Workers : UserRaises(t)
    \/ \E t \in Workers : Retry(t)
    \/ \E t \in Workers : CancelTask(t)
    \/ Consume
    \/ ConsumeCancelled
    \/ LogErrorDone
    \/ WriteItem
    \/ WriteEnd
    \/ FinallyLog
    \/ CloseSession
    \/ OnShutdown
    \/ OnShutdownReturns
    \/ FinalReport

SpecCancel == InitCancel /\ [][NextCancel]_vars

\* the dispatcher with the process function of user_logic.py, which writes
\* into the record it is passed
InitWrite ==
    InitWith({Config(2, 0, 1, 1, "force_rerun")}, {TRUE}, RecordInputs, {0})

NextWrite ==
    \/ LoadProcessedState
    \/ GetTasksToProcess
    \/ StartDispatch
    \/ \E t \in Workers : Acquire(t)
    \/ \E t \in Workers : UserWrites(t)
    \/ \E t \in Workers : UserReturns(t)
    \/ \E t \in Workers : UserRaises(t)
    \/ \E t \in Workers : InnerRetry(t)
    \/ \E t \in Workers : Retry(t)
    \/ Consume
    \/ LogErrorDone
    \/ WriteItem
    \/ WriteEnd
    \/ FinallyLog
    \/ CloseSession
    \/ OnShutdown
    \/ OnShutdownReturns
    \/ FinalReport

SpecWrite == InitWrite /\ [][NextWrite]_vars

\* the rate-limited dispatcher under fair scheduling: the event loop runs
\* every coroutine that is ready, every sleep ends, every call of the
\* process function returns or raises
InitLive ==
    InitWith({Config(1, 30, 2, 1, "force_rerun"), Config(2, 30, 2, 0, "force_rerun")},
             {FALSE}, RecordInputs, {2})

\* time is followed through the sleeps under the rate-limit lock
NextLive ==
    \/ LoadProcessedState
    \/ GetTasksToProcess
    \/ StartDispatch
    \/ \E t \in Workers : Acquire(t)
    \/ \E t \in Workers : RateLimitEnter(t)
    \/ \E t \in Workers : SleepElapses(t)
    \/ \E t \in Workers : RateLimitWake(t)
    \/ \E t \in Workers : UserReturns(t)
    \/ \E t \in Workers : UserRaises(t)
    \/ \E t \in Workers : Retry(t)
    \/ Consume
    \/ LogErrorDone
    \/ WriteItem
    \/ WriteEnd
    \/ FinallyLog
    \/ CloseSession
    \/ OnShutdown
    \/ OnShutdownReturns
    \/ FinalReport

\* a step of the coroutine worker(t)
TaskStep(t) ==
    /\ t \in Workers
    /\ \/ Acquire(t)
       \/ RateLimitEnter(t)
       \/ SleepElapses(t)
       \/ RateLimitWake(t)
       \/ UserReturns(t)
       \/ UserRaises(t)
       \/ Retry(t)

\* a step of the coroutine _run_processing_loop
LoopStep ==
    \/ Consume
    \/ LogErrorDone
    \/ WriteItem
    \/ WriteEnd
    \/ FinallyLog

Fairness ==
    /\ \A t \in 1..MaxLines : WF_vars(TaskStep(t))
    /\ WF_vars(LoopStep)

SpecLive == InitLive /\ [][NextLive]_vars /\ Fairness

-----------------------------------------------------------------------------
(* Properties of the dispatcher (specification Spec) *)

Terminal == {"succeeded", "failed", "voided"}

\* the lines this run appended to a file
NewLines(file, len0) == (len0 + 1)..Len(file)

\* C1: when _run_processing_loop completes normally, every accepted task has
\* reached exactly one outcome: one success record, or one failure record, or
\* voided with nothing emitted, according to what its user call did.
C1_ExactlyOneOutcome ==
    mpc = "returned" =>
        \A t \in DOMAIN wpc :
            LET v == tasks[t].v
                voided == IF wpc[t] = "voided" THEN 1 ELSE 0
            IN /\ wpc[t] \in Terminal
               /\ nOk[v] + nErr[v] + voided = 1
               /\ (wpc[t] = "succeeded" => nOk[v] = 1)
               /\ (wpc[t] = "failed" => nErr[v] = 1)

\* a normal completion in which all three outcomes occurred
C1_Witness ==
    /\ mpc = "returned"
    /\ \E t \in DOMAIN wpc : wpc[t] = "succeeded"
    /\ \E t \in DOMAIN wpc : wpc[t] = "voided" \/ wpc[t] = "failed"
    /\ \E t \in DOMAIN wpc : calls[t] > 1

\* C4: a task that failed was called exactly MAX_RETRIES + 1 times, every call
\* raising; a task that succeeded or was voided on call k was called exactly k
\* times, k <= MAX_RETRIES + 1; with MAX_RETRIES = 0 no task is called twice.
C4_RetryAttempts ==
    \A t \in DOMAIN wpc :
        /\ (wpc[t] = "failed" =>
                calls[t] = config.MAX_RETRIES + 1 /\ raises[t] = calls[t])
        /\ (wpc[t] \in {"succeeded", "voided"} =>
                calls[t] = raises[t] + 1 /\ calls[t] <= config.MAX_RETRIES + 1)
        /\ (config.MAX_RETRIES = 0 => calls[t] <= 1)

\* with a retry configured: one task failed after all its calls, another
\* succeeded on its last call
C4_Witness ==
    /\ config.MAX_RETRIES > 0
    /\ \E t \in DOMAIN wpc : wpc[t] = "failed" /\ calls[t] = config.MAX_RETRIES + 1
    /\ \E t \in DOMAIN wpc : wpc[t] = "succeeded" /\ calls[t] = config.MAX_RETRIES + 1

C7_AtMostOnce ==
    /\ \A i, j \in NewLines(outFile, outLen0) : i # j => outFile[i].v # outFile[j].v
    /\ \A i, j \in NewLines(errFile, errLen0) :
            i # j => errFile[i].original_record.v # errFile[j].original_record.v

\* C8 (as claimed): no ID is both on a line appended to the success file and on
\* a line appended to the failure file.
C8_NoIdInBothFiles ==
    \A i \in NewLines(outFile, outLen0), j \in NewLines(errFile, errLen0) :
        outFile[i].id # errFile[j].record_id

\* the accepted tasks have pairwise different IDs
DistinctTaskIds ==
    \A s, t \in DOMAIN tasks : s # t => tasks[s].id # tasks[t].id

\* C8 (amended): no input record is both on a line appended to the success
\* file and on a line appended to the failure file; when the accepted tasks
\* have pairwise different IDs, no ID is on both either.
C8_NoRecordInBothFiles ==
    /\ \A i \in NewLines(outFile, outLen0), j \in NewLines(errFile, errLen0) :
            outFile[i].v # errFile[j].original_record.v
    /\ DistinctTaskIds => C8_NoIdInBothFiles

\* a run with tasks of different IDs appended to both files
C8_Witness ==
    /\ DistinctTaskIds
    /\ mpc = "returned"
    /\ NewLines(outFile, outLen0) # {}
    /\ NewLines(errFile, errLen0) # {}

-----------------------------------------------------------------------------
(* Properties of the semaphore and the rate limiter (specifications        *)
(* SpecRate and SpecWired)                                                 *)

\* C2: the tasks holding a concurrency slot (in the rate limiter, in the user
\* call or in a backoff sleep) are never more than MAX_CONCURRENCY.
C2_BoundedConcurrency ==
    Cardinality(Holding) <= config.MAX_CONCURRENCY

\* every slot is taken by a task that, after a backoff sleep, sleeps in the
\* rate limiter for its second call, and another task waits for a slot
C2_Witness ==
    /\ Cardinality(Holding) = config.MAX_CONCURRENCY
    /\ \E t \in DOMAIN wpc : wpc[t] = "queued"
    /\ \E t \in DOMAIN wpc : wpc[t] = "rlsleep" /\ calls[t] = 2

\* C3: with REQUESTS_PER_MINUTE = R > 0, any two starts of process_func made
\* by rate_limited_process are at least 60/R apart.
C3_StartsSpaced ==
    config.REQUESTS_PER_MINUTE > 0 =>
        \A i, j \in DOMAIN starts :
            i < j => starts[j] - starts[i] >= request_delay(config.REQUESTS_PER_MINUTE)

\* two starts were made, one worker sleeps under the lock and another one
\* waits for the lock
C3_Witness ==
    /\ config.REQUESTS_PER_MINUTE > 0
    /\ Len(starts) >= 2
    /\ \E t \in DOMAIN wpc : rate_limit_lock = t /\ wpc[t] = "rlsleep"
    /\ \E t \in DOMAIN wpc : wpc[t] = "lockwait"

\* C5 (as claimed): with a rate limit, the body of the user function has never
\* been executed more often than the rate limiter has been passed.
C5_EveryAttemptRateLimited ==
    (config.REQUESTS_PER_MINUTE > 0 /\ phase = "dispatch") =>
        Sum(bodyExecs) <= rlPasses

\* the same for an undecorated process function only
C5_Undecorated ==
    ~wired => C5_EveryAttemptRateLimited

-----------------------------------------------------------------------------
(* Properties of resumed runs (specification SpecResume) *)

\* the line holds a record with a usable ID
Usable(line) == line.kind = "obj" /\ line.id # ""

\* the line carries the configured rerun key
CarriesRerunKey(line) == config.RERUN_KEY # "" /\ line.rerun

\* the IDs on the lines the success file had when the run started that do not
\* carry the rerun key
UnmarkedIds ==
    { outFile[i].id : i \in { j \in 1..outLen0 : Usable(outFile[j])
                                                  /\ ~CarriesRerunKey(outFile[j]) } }

\* the run appended nothing to either output file
NothingAppended == Len(outFile) = outLen0 /\ Len(errFile) = errLen0

\* C9 (as claimed): a run on unchanged files that found a non-empty success
\* file appends no line to the success file and none to the failure file.
C9_ResumeIdempotent ==
    (runNo >= 2 /\ marked.id = "" /\ outLen0 > 0) => NothingAppended

\* C9 (amended): a run on unchanged files appends no line to either file when
\* every input record with a usable ID has its ID on a success-file line that
\* does not carry the rerun key.
C9_ResumeAfterSuccess ==
    (runNo >= 2 /\ \A k \in DOMAIN input : Usable(input[k]) => input[k].id \in UnmarkedIds)
        => NothingAppended

\* a second run is over; the first one had written a success line for each of
\* two input records
C9_Witness ==
    /\ runNo = 2
    /\ phase = "done"
    /\ marked.id = ""
    /\ outLen0 >= 2
    /\ \A k \in DOMAIN input : Usable(input[k]) /\ input[k].id \in UnmarkedIds
    /\ NothingAppended

\* the selector has run in the current run and the success file has not been
\* edited since
Selected ==
    /\ phase \in {"startup", "dispatch", "shutdown", "on_shutdown", "report", "done"}
    /\ marked.run < runNo

\* the input lines of the accepted tasks
TaskLines == { tasks[t].v : t \in DOMAIN tasks }

\* C10 (as claimed): in the run after one success line was given the rerun
\* key, the selector emits exactly the input records with the ID of that line.
C10_RerunExactlyMarked ==
    (Selected /\ marked.id # "" /\ runNo = marked.run + 1) =>
        TaskLines = { k \in DOMAIN input : Usable(input[k]) /\ input[k].id = marked.id }

\* C10 (amended): the loader puts an ID in the processed set exactly from the
\* success-file lines that do not carry the rerun key, and the selector emits
\* exactly the input records whose usable ID is on no such line: the records
\* with the ID of the marked line, unless another line without the key carries
\* that ID, and the records that have no success line.
C10_RerunUnlessUnmarked ==
    Selected =>
        /\ processed_ids = UnmarkedIds
        /\ TaskLines = { k \in DOMAIN input : Usable(input[k]) /\ input[k].id \notin UnmarkedIds }
        /\ (marked.id # "" /\ marked.id \notin UnmarkedIds) =>
                \A k \in DOMAIN input :
                    (Usable(input[k]) /\ input[k].id = marked.id) => k \in TaskLines

\* the run after the edit has processed the marked record, and only that one,
\* again and appended its new success line
C10_Witness ==
    /\ Selected
    /\ phase = "done"
    /\ runNo = marked.run + 1
    /\ marked.id # ""
    /\ outLen0 >= 2
    /\ TaskLines # {}
    /\ \A t \in DOMAIN tasks : tasks[t].id = marked.id
    /\ Len(outFile) > outLen0

-----------------------------------------------------------------------------
(* Claims about the counters and about the terminal stage of run(), under Spec *)

\* the workers whose result was of the given kind
WorkersEnded(pc) == { t \in DOMAIN wpc : wpc[t] = pc }

\* C11: when _run_processing_loop returns normally over T accepted tasks,
\* success_count + error_count + the number of tasks whose user function
\* returned None is T, success_count is the number of results classified as
\* success and error_count the number classified as failure
C11_CountsAddUp ==
    mpc = "returned" =>
        /\ success_count + error_count + Cardinality(WorkersEnded("voided"))
              = Len(tasks)
        /\ success_count = Cardinality(WorkersEnded("succeeded"))
        /\ error_count = Cardinality(WorkersEnded("failed"))
        /\ success_count = Sum(nOk)
        /\ error_count = Sum(nErr)

\* a normal return over two tasks, one of them voided and one counted
C11_Witness ==
    /\ mpc = "returned"
    /\ Len(tasks) = 2
    /\ Cardinality(WorkersEnded("voided")) = 1
    /\ success_count + error_count = 1

\* run() has been left, by return or by an exception, after the dispatch stage
\* was entered or on_startup raised
RunOver == phase \in {"done", "crashed"} /\ hookCalls > 0

\* C12 (as claimed): when on_shutdown raised, its error does not leave run()
\* and the final report is still logged
C12_ShutdownErrorSwallowed ==
    (RunOver /\ hookResult = "raised") =>
        (exc # "ShutdownError" /\ report # {})

\* C13 (as claimed): after a cancellation that reached the dispatcher,
\* on_shutdown has been invoked exactly once and, the hook having returned,
\* what leaves run() is the CancelledError
C13_CancellationPropagates ==
    (RunOver /\ cancelled # "no" /\ hookResult = "returned") =>
        (hookCalls = 1 /\ exc = "CancelledError")

\* C14 (as claimed): whenever the selector yielded a task and on_shutdown
\* returned, the run ends with the whole report logged - duration, skipped,
\* attempted, success and failure counts - whether the dispatcher returned,
\* on_startup raised or the dispatcher was cancelled
C14_ReportOnEveryPath ==
    (RunOver /\ tasks # << >> /\ hookResult = "returned") =>
        (report = ReportHead \cup ReportCounts /\ exc # "UnboundLocalError")

\* C17 (as claimed): while on_shutdown runs, the session placed in
\* context['session'] is still open
C17_SessionOpenInShutdown ==
    (phase = "on_shutdown" /\ session # "none") => session = "open"

\* the payloads of the lines a file gained in the current run
Written(file, len0) == { file[k].v : k \in NewLines(file, len0) }
WrittenErr(file, len0) == { file[k].original_record.v : k \in NewLines(file, len0) }

\* C15: an I/O error while a batch is appended does not interrupt the run:
\* unless a cancellation arrives the outcome loop returns normally with every
\* outcome consumed, every counted record was handed to _write_batch, and a
\* counted record is missing from its file only if it was in a batch whose
\* write failed
C15_WriteErrorSwallowed ==
    (mpc \in {"returned", "raised"} /\ cancelled = "no") =>
        /\ mpc = "returned"
        /\ consumed = Len(tasks)
        /\ \A v \in DOMAIN nOk :
              nOk[v] > 0 => /\ v \in handed.ok
                            /\ v \in Written(outFile, outLen0) \cup lost.ok
        /\ \A v \in DOMAIN nErr :
              nErr[v] > 0 => /\ v \in handed.err
                             /\ v \in WrittenErr(errFile, errLen0) \cup lost.err

\* a run that returned normally although the write of one success batch
\* failed, with another success record written by a different batch
C15_Witness ==
    /\ mpc = "returned"
    /\ consumed = 2
    /\ lost.ok # {}
    /\ Written(outFile, outLen0) \ lost.ok # {}

-----------------------------------------------------------------------------
(* Claims about the lines the selector cannot use, under Spec *)

\* _load_processed_state or _get_tasks_to_process was left by an exception
SelectionAborted == phase = "crashed" /\ hookCalls = 0

\* C16 (as claimed): no input line aborts the selection - whatever lines
\* yield no record with a usable ID, the selector goes on and emits every
\* valid record that is not processed yet
C16_BadLineSkipped ==
    phase \notin {"load", "select"} =>
        /\ ~SelectionAborted
        /\ TaskLines = { k \in 1..Len(input) :
                           Usable(input[k]) /\ input[k].id \notin processed_ids }

\* the input lines the selector warns about: unparseable, or without an ID
WarnLines ==
    { k \in 1..Len(input) :
        input[k].kind = "bad" \/ (input[k].kind = "obj" /\ input[k].id = "") }

\* C18 (as claimed): the i-th warning of the selector reports the position
\* in the input file of the i-th line it warns about
C18_WarningLineNumbers ==
    \A i \in DOMAIN warnings :
        /\ warnings[i] \in WarnLines
        /\ Cardinality({ k \in WarnLines : k <= warnings[i] }) = i

-----------------------------------------------------------------------------
(* Claim about the cancellation of a task, under SpecCancel *)

\* the tasks a cancellation was delivered to
CancelledTasks == { t \in DOMAIN cancelAt : cancelAt[t] >= 0 }

\* C20: a task cancelled during an attempt or a backoff sleep ends cancelled:
\* the wrapper makes no call after the cancellation and does not sleep again,
\* the worker's result is no failure outcome, and no failure record for the
\* task is counted, batched or written
C20_CancellationIsNoFailure ==
    \A t \in CancelledTasks :
        /\ wpc[t] = "cancelled"
        /\ calls[t] = cancelAt[t]
        /\ nErr[tasks[t].v] = 0
        /\ nOk[tasks[t].v] = 0
        /\ tasks[t].v \notin Payloads(errors_batch, TRUE)
        /\ tasks[t].v \notin WrittenErr(errFile, errLen0)

\* a task cancelled in the backoff sleep after its first attempt raised, in a
\* dispatcher that has since ended
C20_Witness ==
    /\ mpc = "raised"
    /\ \E t \in CancelledTasks :
          /\ cancelAt[t] = 1
          /\ raises[t] = 1
          /\ wpc[t] = "cancelled"

-----------------------------------------------------------------------------
(* Claim about the progress of the dispatcher, under SpecLive *)

\* C19: under fair scheduling, with terminating calls and sleeps, once the
\* dispatcher runs every accepted task eventually reaches succeeded, failed
\* or voided after at most MAX_RETRIES retries, and _run_processing_loop
\* returns
C19_DispatcherTerminates ==
    (phase = "dispatch") ~>
        /\ mpc = "returned"
        /\ \A t \in DOMAIN wpc : /\ wpc[t] \in Terminal
                                  /\ attempt[t] <= config.MAX_RETRIES

\* the dispatcher has returned over two tasks with one slot: one task had to
\* wait for the semaphore, one slept under the rate-limit lock and one was
\* retried up to the limit
C19_Witness ==
    /\ mpc = "returned"
    /\ config.MAX_CONCURRENCY = 1
    /\ Len(tasks) = 2
    /\ Len(starts) = 3
    /\ starts[3] - starts[1] >= 2 * request_delay(config.REQUESTS_PER_MINUTE)
    /\ \E t \in DOMAIN wpc : attempt[t] = config.MAX_RETRIES /\ wpc[t] = "failed"

-----------------------------------------------------------------------------
(* Claim about the content of the failure records, under SpecWrite *)

\* C21 (as claimed): every failure record of the run, batched or written,
\* carries as original_record the input record as it was parsed from its
\* line, and as record_id the ID of that record
C21_OriginalRecordVerbatim ==
    /\ \A k \in 1..Len(errors_batch) :
          LET fr == errors_batch[k] IN
            /\ fr.original_record = input[fr.original_record.v]
            /\ fr.record_id = input[fr.original_record.v].id
    /\ \A k \in NewLines(errFile, errLen0) :
          LET fr == errFile[k] IN
            /\ fr.original_record = input[fr.original_record.v]
            /\ fr.record_id = input[fr.original_record.v].id

====
